---- MODULE Spec2Model ----
(***************************************************************************)
(* Geofencing and alerting in the tourist-safety application.             *)
(*                                                                         *)
(* Three implementations of the danger-zone check are modelled, each with *)
(* its own state and its own specification:                                *)
(*   - the client hook useDangerZoneDetection with the browser's          *)
(*     localStorage (SpecClient),                                          *)
(*   - the Express backend's POST /api/locations over the Postgres tables  *)
(*     (SpecBackend),                                                      *)
(*   - the TouristSafety contract (SpecContract).                          *)
(*                                                                         *)
(* Units.  Client and backend coordinates are millidegrees, distances and  *)
(* radii centimetres.  Contract coordinates are degrees * 1e6 and radii    *)
(* metres, as in the contract.                                             *)
(***************************************************************************)
EXTENDS Integers, Sequences, FiniteSets, TLC

\* -------------------------------------------------------------------------
\* Bounds of the model

\* Zones ever created in the browser (each gets a fresh Date.now() id).
MaxZones == 2
\* Location posts the backend receives.
MaxRequests == 2
\* Alerts the contract creates.
MaxAlerts == 2

\* -------------------------------------------------------------------------
\* Inputs

\* Tourist ids of the users of the browser, with their user names.
Subjects == {"TID-1", "TID-2"}
Username(s) == IF s = "TID-1" THEN "asha" ELSE "ravi"
\* The users whose Dashboard is open and tracking.
Tracked == {"TID-1"}

\* The zone forms an admin submits: name, centre, radius, level.  Every
\* position of the model lies on the meridian lng = 20.000.
ZoneForms ==
    { [name |-> "Cliff", lat |-> 10000, lng |-> 20000, radius |-> 55595, level |-> "high"],
      [name |-> "River", lat |-> 10010, lng |-> 20000, radius |-> 150000, level |-> "low"] }

\* Latitudes the geolocation watch reports: on the boundary of Cliff (five
\* millidegrees, 55595 cm, south of its centre) and outside River, inside
\* both, inside River only, inside neither.
SampleLats == {9995, 10000, 10020, 10040}
Samples == [lat : SampleLats, lng : {20000}]

\* The timestamps of the positions the watch delivers, in any order.
Timestamps == {1, 2}

\* A GeolocationPosition: coordinates and timestamp.
Stamped(loc, t) == [lat |-> loc.lat, lng |-> loc.lng, timestamp |-> t]

Statuses == {"safe", "alert", "danger"}

Null == [none |-> TRUE]

\* -------------------------------------------------------------------------
\* State

VARIABLES
    \* --- browser: React state, refs and localStorage
    userLocation,      \* Dashboard's location state, per user (Null before the first fix)
    userStatus,        \* AuthProvider's user.status, per user
    notifiedZones,     \* notifiedZonesRef.current, per user: a set of zone keys
    adminNotified,     \* adminNotifiedRef.current, per user: a set of zone keys
    dangerZones,       \* localStorage 'dangerZones': a list of zones
    dangerZoneAlerts,  \* localStorage 'dangerZoneAlerts': a list of alerts
    now,               \* Date.now(), as far as zone ids depend on it
    \* --- what the most recent call did
    lastCall,          \* the most recent call: its name and its user
    evaluated,         \* per user, the zone list of the user's most recent evaluation
    contacted,         \* per user, the zone keys evaluated so far
    firstContact,      \* the zone keys the most recent evaluation met for the first time
    toasts,            \* the toasts of the most recent evaluation, in order
    alertsOut,         \* the alerts the most recent evaluation stored, in order
    stamps,            \* the timestamps of the last two positions the watch delivered
    \* --- backend: Postgres tables and the requests being handled
    user_locations,    \* table user_locations: the row of each user (Null without one)
    danger_zones,      \* table danger_zones: its rows, oldest first
    alerts,            \* table alerts: its rows, oldest first
    requests,          \* the POST /api/locations requests, by arrival number
    lastDone,          \* the request answered by the most recent backend event, or 0
    \* --- contract TouristSafety: its storage
    owner,
    admins,
    isAdmin,
    tourists,
    touristIdToAddress,
    registeredTourists,
    contractZones,     \* DangerZone[] dangerZones
    zoneIdToIndex,
    emergencyAlerts,   \* EmergencyAlert[] alerts
    alertCount,
    touristCounter,
    zoneCounter,
    alertCounter,
    tx,                \* the most recent transaction: function, sender, outcome
    \* --- the admin's browser: AuthProvider, WalletContext, the router
    authIsAdmin,       \* AuthProvider's isAdmin state
    adminWalletAddress,\* AuthProvider's adminWalletAddress state
    isVerifyingAdmin,  \* AuthProvider's isVerifyingAdmin state
    localStorage,      \* localStorage's keys 'adminWalletAddress' and 'isAdmin'
    verifications,     \* the verifyAdminOnChain calls in flight, oldest first
    booted,            \* whether AuthProvider's mount effect has run
    walletAddress,     \* WalletContext's connected wallet
    page,              \* the route shown, and whether its mount effects have run
    admitted,          \* whether AdminDashboard's access guard has passed
    \* --- AdminDashboard with the contract connected
    chainCall,         \* the contract call a handler of AdminDashboard is awaiting
    \* --- the hook useAPI
    isLoading,         \* useAPI's isLoading state
    error,             \* useAPI's error state
    apiCalls,          \* the calls started through execute and not settled, oldest first
    returned           \* what the call that settled most recently returned

clientVars == << userLocation, userStatus, notifiedZones, adminNotified, dangerZones,
                 dangerZoneAlerts, now, lastCall, evaluated, contacted, firstContact,
                 toasts, alertsOut, stamps >>

backendVars == << user_locations, danger_zones, alerts, requests, lastDone >>

contractVars == << owner, admins, isAdmin, tourists, touristIdToAddress, registeredTourists,
                   contractZones, zoneIdToIndex, emergencyAlerts, alertCount,
                   touristCounter, zoneCounter, alertCounter >>

authVars == << authIsAdmin, adminWalletAddress, isVerifyingAdmin, localStorage,
              verifications, booted, walletAddress, page, admitted >>

apiVars == << isLoading, error, apiCalls, returned >>

appVars == << authVars, chainCall, apiVars >>

vars == << clientVars, backendVars, contractVars, tx, appVars >>

\* -------------------------------------------------------------------------
\* The client hook useDangerZoneDetection

Abs(x) == IF x < 0 THEN -x ELSE x

\* R * pi / 180 for R = 6371000 m, in centimetres per millidegree.
CmPerMilliDegree == 11119

\* calculateDistance: the Haversine distance.  For two points of one
\* meridian dLon = 0, so a = sin^2(dLat/2), c = 2 atan2(sqrt a, sqrt(1-a))
\* = |dLat| and the result is R * |dLat| (dLat in radians).
calculateDistance(lat1, lon1, lat2, lon2) ==
    IF lon1 = lon2 THEN CmPerMilliDegree * Abs(lat2 - lat1)
    ELSE CHOOSE d \in {} : TRUE

\* isInZone with a strict comparison.
isInZoneStrict(distance, radius) == distance < radius

isInZone(distance, radius) == distance <= radius

zoneKey(userId, zoneId) == userId \o "-" \o zoneId

\* Is the location within the zone's disk?
Contains(zone, loc) ==
    isInZone(calculateDistance(loc.lat, loc.lng, zone.lat, zone.lng), zone.radius)

\* The admin alert pushed to 'dangerZoneAlerts' (lines 70-82).
DangerAlert(zone, key, userId, username, loc) ==
    [ key |-> key, touristId |-> userId, username |-> username,
      zoneName |-> zone.name, zoneLevel |-> zone.level,
      location |-> loc, type |-> "danger_zone_entry" ]

\* EnterZone storing an admin alert whether or not the key was reported.
EnterZoneAlways(acc, zone, key, userId, username, loc) ==
    [ notified |-> acc.notified \cup {key},
      toasts   |-> Append(acc.toasts, [kind |-> "Entered", key |-> key, zone |-> zone.id]),
      admin    |-> acc.admin \cup {key},
      stored   |-> Append(acc.stored, DangerAlert(zone, key, userId, username, loc)) ]

\* The entry branch (lines 56-88): remember the key, toast, and store an
\* admin alert unless the key was already reported in this session.
EnterZone(acc, zone, key, userId, username, loc) ==
    [ notified |-> acc.notified \cup {key},
      toasts   |-> Append(acc.toasts, [kind |-> "Entered", key |-> key, zone |-> zone.id]),
      admin    |-> acc.admin \cup {key},
      stored   |-> IF key \in acc.admin THEN acc.stored
                   ELSE Append(acc.stored, DangerAlert(zone, key, userId, username, loc)) ]

\* LeaveZone with the key left in the set.
LeaveZoneKeepsKey(acc, zone, key) ==
    [ acc EXCEPT !.toasts = Append(acc.toasts, [kind |-> "Left", key |-> key, zone |-> zone.id]) ]

\* The exit branch (lines 89-97): forget the key and toast.
LeaveZone(acc, zone, key) ==
    [ acc EXCEPT !.notified = acc.notified \ {key},
                 !.toasts = Append(acc.toasts, [kind |-> "Left", key |-> key, zone |-> zone.id]) ]

\* CheckZone without the test of the stored key on entry.
CheckZoneNoDedup(acc, zone, userId, username, loc) ==
    LET isIn == Contains(zone, loc)
        key  == zoneKey(userId, zone.id)
    IN  IF isIn
          THEN EnterZone(acc, zone, key, userId, username, loc)
        ELSE IF ~isIn /\ key \in acc.notified
          THEN LeaveZone(acc, zone, key)
        ELSE acc

\* CheckZone with the two branches' tests of the stored key exchanged.
CheckZoneInverted(acc, zone, userId, username, loc) ==
    LET isIn == Contains(zone, loc)
        key  == zoneKey(userId, zone.id)
    IN  IF isIn /\ key \in acc.notified
          THEN EnterZone(acc, zone, key, userId, username, loc)
        ELSE IF ~isIn /\ key \notin acc.notified
          THEN LeaveZone(acc, zone, key)
        ELSE acc

\* The body of dangerZones.forEach for one zone (lines 45-98).
CheckZone(acc, zone, userId, username, loc) ==
    LET isIn == Contains(zone, loc)
        key  == zoneKey(userId, zone.id)
    IN  IF isIn /\ key \notin acc.notified
          THEN EnterZone(acc, zone, key, userId, username, loc)
        ELSE IF ~isIn /\ key \in acc.notified
          THEN LeaveZone(acc, zone, key)
        ELSE acc

\* ForEachZone stopping one zone early.
RECURSIVE ForEachZoneButLast(_, _, _, _, _, _)
ForEachZoneButLast(acc, zones, i, userId, username, loc) ==
    IF i >= Len(zones) THEN acc
    ELSE ForEachZoneButLast(CheckZone(acc, zones[i], userId, username, loc),
                            zones, i + 1, userId, username, loc)

\* ForEachZone visiting the zones from the last to the first.
RECURSIVE ForEachZoneBackwards(_, _, _, _, _, _)
ForEachZoneBackwards(acc, zones, i, userId, username, loc) ==
    IF i > Len(zones) THEN acc
    ELSE ForEachZoneBackwards(CheckZone(acc, zones[Len(zones) + 1 - i], userId, username, loc),
                              zones, i + 1, userId, username, loc)

\* dangerZones.forEach, from the i-th zone on.
RECURSIVE ForEachZone(_, _, _, _, _, _)
ForEachZone(acc, zones, i, userId, username, loc) ==
    IF i > Len(zones) THEN acc
    ELSE ForEachZone(CheckZone(acc, zones[i], userId, username, loc),
                     zones, i + 1, userId, username, loc)

\* The keys of a user for the zones of a list.
ZoneKeys(s, zones) == { zoneKey(s, zones[i].id) : i \in 1..Len(zones) }

\* One run of the effect for a user at a location (lines 40-99).
Detect(s, loc) ==
    ForEachZone([ notified |-> notifiedZones[s], admin |-> adminNotified[s],
                  toasts |-> << >>, stored |-> << >> ],
                dangerZones, 1, s, Username(s), loc)

\* newLocation with the position's timestamp kept in it.
newLocationStamped(position) == position

\* The location the watch callback builds from a position (lines 61-64).
newLocation(position) == [lat |-> position.lat, lng |-> position.lng]

\* The geolocation watch delivers a position: Dashboard stores it as the
\* location state and the hook's effect runs on the new location.
UpdateLocation(s, position) ==
    LET loc == newLocation(position)
        r   == Detect(s, loc)
    IN  /\ stamps' = << stamps[2], position.timestamp >>
        /\ userLocation' = [userLocation EXCEPT ![s] = loc]
        /\ notifiedZones' = [notifiedZones EXCEPT ![s] = r.notified]
        /\ adminNotified' = [adminNotified EXCEPT ![s] = r.admin]
        /\ dangerZoneAlerts' = dangerZoneAlerts \o r.stored
        /\ toasts' = r.toasts
        /\ alertsOut' = r.stored
        /\ evaluated' = [evaluated EXCEPT ![s] = dangerZones]
        /\ lastCall' = [op |-> "updateLocation", user |-> s]
        /\ contacted' = [contacted EXCEPT ![s] = @ \cup ZoneKeys(s, dangerZones)]
        /\ firstContact' = ZoneKeys(s, dangerZones) \ contacted[s]
        /\ UNCHANGED << userStatus, dangerZones, now, backendVars, contractVars, tx, appVars >>

\* AdminDashboard.addDangerZone without a contract connection: the zone gets
\* the id Date.now().toString() and is appended to the stored list.
addDangerZone(form) ==
    /\ now < MaxZones
    /\ now' = now + 1
    /\ dangerZones' = Append(dangerZones,
                             [ id |-> ToString(now'), name |-> form.name, lat |-> form.lat,
                               lng |-> form.lng, radius |-> form.radius, level |-> form.level ])
    /\ lastCall' = [op |-> "addDangerZone", user |-> ""]
    /\ UNCHANGED << userLocation, userStatus, notifiedZones, adminNotified, dangerZoneAlerts,
                    evaluated, contacted, firstContact, toasts, alertsOut, stamps,
                    backendVars, contractVars, tx, appVars >>

\* AdminDashboard.removeDangerZone without a contract connection.
removeDangerZone(id) ==
    /\ \E i \in 1..Len(dangerZones) : dangerZones[i].id = id
    /\ dangerZones' = SelectSeq(dangerZones, LAMBDA z : z.id # id)
    /\ lastCall' = [op |-> "removeDangerZone", user |-> ""]
    /\ UNCHANGED << userLocation, userStatus, notifiedZones, adminNotified, dangerZoneAlerts,
                    now, evaluated, contacted, firstContact, toasts, alertsOut, stamps,
                    backendVars, contractVars, tx, appVars >>

\* The hook's clearNotifications (lines 101-106), for the hook of one user,
\* while fewer than MaxAlerts alerts are stored.
clearNotifications(s) ==
    /\ Len(dangerZoneAlerts) < MaxAlerts
    /\ notifiedZones' = [notifiedZones EXCEPT ![s] = {}]
    /\ adminNotified' = [adminNotified EXCEPT ![s] = {}]
    /\ lastCall' = [op |-> "clearNotifications", user |-> s]
    /\ UNCHANGED << userLocation, userStatus, dangerZones, dangerZoneAlerts, now, evaluated,
                    contacted, firstContact, toasts, alertsOut, stamps,
                    backendVars, contractVars, tx, appVars >>

InitClient ==
    /\ userLocation = [s \in Subjects |-> Null]
    /\ userStatus \in [Subjects -> Statuses]
    /\ \A s \in Subjects \ Tracked : userStatus[s] = "safe"
    /\ notifiedZones = [s \in Subjects |-> {}]
    /\ adminNotified = [s \in Subjects |-> {}]
    /\ dangerZones = << >>
    /\ dangerZoneAlerts = << >>
    /\ now = 0
    /\ lastCall = [op |-> "mount", user |-> ""]
    /\ evaluated = [s \in Subjects |-> << >>]
    /\ contacted = [s \in Subjects |-> {}]
    /\ firstContact = {}
    /\ toasts = << >>
    /\ alertsOut = << >>
    /\ stamps = << 0, 0 >>

\* Positions with equal timestamps, zones added and removed.
NextClient ==
    \/ \E s \in Tracked, loc \in Samples : UpdateLocation(s, Stamped(loc, 0))
    \/ \E form \in ZoneForms : addDangerZone(form)
    \/ \E i \in 1..MaxZones : removeDangerZone(ToString(i))

\* A user walks in and out of the zones, and the notifications are cleared.
NextSession ==
    \/ \E s \in Tracked, lat \in {10000, 10040} :
          UpdateLocation(s, [lat |-> lat, lng |-> 20000, timestamp |-> 0])
    \/ \E form \in ZoneForms : addDangerZone(form)
    \/ \E i \in 1..MaxZones : removeDangerZone(ToString(i))
    \/ \E s \in Tracked : clearNotifications(s)

\* Positions with timestamps in any order, around the zone Cliff.
NextFeed ==
    \/ \E s \in Tracked, lat \in {10000, 10040}, t \in Timestamps :
          UpdateLocation(s, [lat |-> lat, lng |-> 20000, timestamp |-> t])
    \/ \E form \in { f \in ZoneForms : f.name = "Cliff" } : addDangerZone(form)
    \/ \E i \in 1..MaxZones : removeDangerZone(ToString(i))

\* -------------------------------------------------------------------------
\* The Express backend: POST /api/locations and POST /api/danger-zones

ReqIds == 1..MaxRequests

\* A request that has not arrived.
NoRequest == [pc |-> "none"]

InFlight == { r \in ReqIds : requests[r].pc \in {"select", "loop"} }

\* The CHECK and NOT NULL constraints of table alerts.
AlertsRowAccepted(row) ==
    /\ row.status \in {"safe", "alert", "danger"}
    /\ row.alert_type \in {"status_change", "danger_zone_entry"}
    /\ row.user_id # Null /\ row.tourist_id # Null /\ row.username # Null

\* The row the handler inserts for a zone the location is in (lines 182-192).
ZoneAlertRow(req, zone) ==
    [ user_id |-> req.user, tourist_id |-> req.user, username |-> "Unknown",
      status |-> "danger", alert_type |-> "entered_danger_zone",
      lat |-> req.lat, lng |-> req.lng,
      zone_name |-> zone.name, zone_level |-> zone.level, dismissed |-> FALSE ]

\* Is the posted location within the zone's radius (lines 179-180)?
InsideRow(req, zone) ==
    calculateDistance(req.lat, req.lng, zone.lat, zone.lng) <= zone.radius

\* The index of the first zone from i on that holds the location, or 0.
NextHit(req, i) ==
    LET hits == { j \in i..Len(req.zones) : InsideRow(req, req.zones[j]) }
    IN  IF hits = {} THEN 0 ELSE CHOOSE j \in hits : \A k \in hits : j <= k

\* A location post arrives and its upsert reaches user_locations (lines 159-171).
PostLocation(r, user, loc) ==
    /\ requests[r] = NoRequest
    /\ \A q \in ReqIds : q < r => requests[q] # NoRequest
    /\ user_locations' = [user_locations EXCEPT ![user] = loc]
    /\ requests' = [ q \in ReqIds |->
                       IF q = r
                         THEN [ pc |-> "select", user |-> user, lat |-> loc.lat, lng |-> loc.lng,
                                zones |-> << >>, i |-> 1, issued |-> << >>,
                                with |-> InFlight, after |-> lastDone ]
                       ELSE IF q \in InFlight
                         THEN [requests[q] EXCEPT !.with = @ \cup {r}]
                       ELSE requests[q] ]
    /\ lastDone' = 0
    /\ UNCHANGED << danger_zones, alerts, clientVars, contractVars, tx, appVars >>

\* The handler reads the danger zones (lines 174-176).
SelectZones(r) ==
    /\ requests[r].pc = "select"
    /\ requests' = [requests EXCEPT ![r].zones = danger_zones, ![r].pc = "loop"]
    /\ UNCHANGED << user_locations, danger_zones, alerts, lastDone, clientVars, contractVars, tx, appVars >>

\* The loop runs to its next insert, which the table accepts or rejects
\* (the handler does not look at the result), lines 178-194.
InsertAlert(r) ==
    /\ requests[r].pc = "loop"
    /\ NextHit(requests[r], requests[r].i) # 0
    /\ LET j   == NextHit(requests[r], requests[r].i)
           row == ZoneAlertRow(requests[r], requests[r].zones[j])
       IN  /\ alerts' = IF AlertsRowAccepted(row) THEN Append(alerts, row) ELSE alerts
           /\ requests' = [requests EXCEPT ![r].i = j + 1,
                                           ![r].issued = Append(@, requests[r].zones[j].id)]
    /\ UNCHANGED << user_locations, danger_zones, lastDone, clientVars, contractVars, tx, appVars >>

\* The loop ends and the handler answers (line 196).
Respond(r) ==
    /\ requests[r].pc = "loop"
    /\ NextHit(requests[r], requests[r].i) = 0
    /\ requests' = [requests EXCEPT ![r].pc = "done"]
    /\ lastDone' = r
    /\ UNCHANGED << user_locations, danger_zones, alerts, clientVars, contractVars, tx, appVars >>

\* POST /api/danger-zones: the row is inserted as posted (lines 106-121).
PostDangerZone(form) ==
    /\ Len(danger_zones) < MaxZones
    /\ danger_zones' = Append(danger_zones,
                              [ id |-> ToString(Len(danger_zones) + 1), name |-> form.name,
                                lat |-> form.lat, lng |-> form.lng, radius |-> form.radius,
                                level |-> form.level ])
    /\ lastDone' = 0
    /\ UNCHANGED << user_locations, alerts, requests, clientVars, contractVars, tx, appVars >>

InitBackend ==
    /\ user_locations = [s \in Subjects |-> Null]
    /\ danger_zones = << >>
    /\ alerts = << >>
    /\ requests = [r \in ReqIds |-> NoRequest]
    /\ lastDone = 0

NextBackend ==
    \/ \E r \in ReqIds, user \in Tracked, loc \in Samples : PostLocation(r, user, loc)
    \/ \E r \in ReqIds : SelectZones(r)
    \/ \E r \in ReqIds : InsertAlert(r)
    \/ \E r \in ReqIds : Respond(r)
    \/ \E form \in ZoneForms : PostDangerZone(form)

\* -------------------------------------------------------------------------
\* The contract TouristSafety

\* The deployer and one more wallet.
Deployer == "0xA0"
Addresses == {"0xA0", "0xB1"}

\* The wallets that may be granted admin rights: the two above and two more.
Wallets == Addresses \cup {"0xC2", "0xD3"}
ZeroAddress == "0x00"

\* SafetyStatus and ZoneLevel.
SafetyStatus == {"Safe", "Alert", "Danger"}
ZoneLevel == {"Low", "Medium", "High", "Critical"}

\* The tourist ids the hash of _generateTouristId can come out as.
TouristIds == {"TID-3F9A0C-11B2", "TID-77D1E4-0A5C"}

\* Call arguments: coordinates are degrees * 1e6, radii metres.
ChainLats == {89999970, 89999990, 90000010}
ChainLngs == {0}
UserNames == {"", "asha"}

\* A slot of mapping(address => Tourist) that was never written.
NoTourist ==
    [ touristId |-> "", username |-> "", email |-> "", status |-> "Safe", isActive |-> FALSE,
      lastLatitude |-> 0, lastLongitude |-> 0 ]

\* _uint2str: the decimal digits of a number.
Digit(d) == << "0", "1", "2", "3", "4", "5", "6", "7", "8", "9" >>[d + 1]

RECURSIVE Digits(_)
Digits(i) == IF i = 0 THEN "" ELSE Digits(i \div 10) \o Digit(i % 10)

uint2str(i) == IF i = 0 THEN "0" ELSE Digits(i)

\* The modifiers.
onlyOwner(sender) == sender = owner
\* onlyAdmin letting every caller through.
onlyAdminOpen(sender) == TRUE

onlyAdmin(sender) == isAdmin[sender] \/ sender = owner
onlyRegisteredTourist(sender) == tourists[sender].isActive

\* A transaction that reverts leaves the storage as it was.
Revert(op, sender) ==
    /\ tx' = [op |-> op, sender |-> sender, reverted |-> TRUE]
    /\ UNCHANGED << contractVars, clientVars, backendVars, appVars >>

Done(op, sender) ==
    /\ tx' = [op |-> op, sender |-> sender, reverted |-> FALSE]
    /\ UNCHANGED << clientVars, backendVars, appVars >>

\* removeAdmin's loop without the overwriting: the array is only shortened.
PopOnly(seq, a) == SubSeq(seq, 1, Len(seq) - 1)

\* removeAdmin's loop: the first match is overwritten by the last element
\* and the array shortened.
SwapAndPop(seq, a) ==
    IF \E i \in 1..Len(seq) : seq[i] = a
      THEN LET i == CHOOSE k \in 1..Len(seq) :
                       seq[k] = a /\ \A j \in 1..(k - 1) : seq[j] # a
           IN  SubSeq([seq EXCEPT ![i] = seq[Len(seq)]], 1, Len(seq) - 1)
    ELSE seq

addAdmin(sender, a) ==
    IF onlyOwner(sender) /\ a # ZeroAddress /\ ~isAdmin[a]
      THEN /\ isAdmin' = [isAdmin EXCEPT ![a] = TRUE]
           /\ admins' = Append(admins, a)
           /\ Done("addAdmin", sender)
           /\ UNCHANGED << owner, tourists, touristIdToAddress, registeredTourists,
                           contractZones, zoneIdToIndex, emergencyAlerts, alertCount,
                           touristCounter, zoneCounter, alertCounter >>
    ELSE Revert("addAdmin", sender)

removeAdmin(sender, a) ==
    IF onlyOwner(sender) /\ a # owner /\ isAdmin[a]
      THEN /\ isAdmin' = [isAdmin EXCEPT ![a] = FALSE]
           /\ admins' = SwapAndPop(admins, a)
           /\ Done("removeAdmin", sender)
           /\ UNCHANGED << owner, tourists, touristIdToAddress, registeredTourists,
                           contractZones, zoneIdToIndex, emergencyAlerts, alertCount,
                           touristCounter, zoneCounter, alertCounter >>
    ELSE Revert("removeAdmin", sender)

\* registerTourist without the test for an earlier registration.
registerTouristAgain(sender, username, email, id) ==
    IF username # "" /\ email # ""
      THEN /\ touristCounter' = touristCounter + 1
           /\ tourists' = [tourists EXCEPT ![sender] =
                              [ touristId |-> id, username |-> username, email |-> email,
                                status |-> "Safe", isActive |-> TRUE,
                                lastLatitude |-> 0, lastLongitude |-> 0 ]]
           /\ touristIdToAddress' = [touristIdToAddress EXCEPT ![id] = sender]
           /\ registeredTourists' = Append(registeredTourists, sender)
           /\ Done("registerTourist", sender)
           /\ UNCHANGED << owner, admins, isAdmin, contractZones, zoneIdToIndex,
                           emergencyAlerts, alertCount, zoneCounter, alertCounter >>
    ELSE Revert("registerTourist", sender)

\* registerTourist; id is what _generateTouristId's hash gives in this block.
registerTourist(sender, username, email, id) ==
    IF ~tourists[sender].isActive /\ username # "" /\ email # ""
      THEN /\ touristCounter' = touristCounter + 1
           /\ tourists' = [tourists EXCEPT ![sender] =
                              [ touristId |-> id, username |-> username, email |-> email,
                                status |-> "Safe", isActive |-> TRUE,
                                lastLatitude |-> 0, lastLongitude |-> 0 ]]
           /\ touristIdToAddress' = [touristIdToAddress EXCEPT ![id] = sender]
           /\ registeredTourists' = Append(registeredTourists, sender)
           /\ Done("registerTourist", sender)
           /\ UNCHANGED << owner, admins, isAdmin, contractZones, zoneIdToIndex,
                           emergencyAlerts, alertCount, zoneCounter, alertCounter >>
    ELSE Revert("registerTourist", sender)

\* EmergencyAlert with the alert attributed to the first registered tourist.
EmergencyAlertOfFirst(ts, counter, a, status, zoneName, zoneLevel) ==
    [ alertId |-> "ALERT-" \o uint2str(counter), tourist |-> registeredTourists[1],
      touristId |-> ts[registeredTourists[1]].touristId, status |-> status,
      latitude |-> ts[a].lastLatitude, longitude |-> ts[a].lastLongitude,
      zoneName |-> zoneName, zoneLevel |-> zoneLevel, isDismissed |-> FALSE ]

\* _createEmergencyAlert, as the record it pushes, given the tourists mapping
\* at the time of the call.
EmergencyAlert(ts, counter, a, status, zoneName, zoneLevel) ==
    [ alertId |-> "ALERT-" \o uint2str(counter), tourist |-> a,
      touristId |-> ts[a].touristId, status |-> status,
      latitude |-> ts[a].lastLatitude, longitude |-> ts[a].lastLongitude,
      zoneName |-> zoneName, zoneLevel |-> zoneLevel, isDismissed |-> FALSE ]

\* CreatesAlert for Danger only.
CreatesAlertForDanger(status) == status = "Danger"

\* The test before _createEmergencyAlert in updateStatus (line 299).
CreatesAlert(status) == status = "Alert" \/ status = "Danger"

updateStatus(sender, status) ==
    IF onlyRegisteredTourist(sender)
      THEN /\ CreatesAlert(status) => alertCounter < MaxAlerts
           /\ tourists' = [tourists EXCEPT ![sender].status = status]
           /\ IF CreatesAlert(status)
                THEN /\ alertCounter' = alertCounter + 1
                     /\ emergencyAlerts' =
                            Append(emergencyAlerts,
                                   EmergencyAlert(tourists', alertCounter', sender, status, "", "Low"))
                     /\ alertCount' = alertCount + 1
                ELSE UNCHANGED << alertCounter, emergencyAlerts, alertCount >>
           /\ tx' = [ op |-> "updateStatus", sender |-> sender, reverted |-> FALSE,
                      status |-> status ]
           /\ UNCHANGED << owner, admins, isAdmin, touristIdToAddress, registeredTourists,
                           contractZones, zoneIdToIndex, touristCounter, zoneCounter,
                           clientVars, backendVars, appVars >>
    ELSE /\ tx' = [ op |-> "updateStatus", sender |-> sender, reverted |-> TRUE,
                    status |-> status ]
         /\ UNCHANGED << contractVars, clientVars, backendVars, appVars >>

\* The test of _checkDangerZoneEntry for one zone (lines 335-344).
InDangerZone(zone, latitude, longitude) ==
    LET latDiff == latitude - zone.latitude
        lngDiff == longitude - zone.longitude
        distanceSquared == (latDiff * latDiff) + (lngDiff * lngDiff)
        radiusSquared == zone.radius * zone.radius * 100
    IN  distanceSquared <= radiusSquared

\* BreakIndex without the test of isActive.
RECURSIVE BreakIndexAnyZone(_, _, _, _)
BreakIndexAnyZone(zones, i, latitude, longitude) ==
    IF i > Len(zones) THEN 0
    ELSE IF InDangerZone(zones[i], latitude, longitude) THEN i
    ELSE BreakIndexAnyZone(zones, i + 1, latitude, longitude)

\* The loop of _checkDangerZoneEntry from index i on: the index of the zone
\* at which it breaks, or 0 if it runs to the end.
RECURSIVE BreakIndex(_, _, _, _)
BreakIndex(zones, i, latitude, longitude) ==
    IF i > Len(zones) THEN 0
    ELSE IF ~zones[i].isActive THEN BreakIndex(zones, i + 1, latitude, longitude)
    ELSE IF InDangerZone(zones[i], latitude, longitude) THEN i
    ELSE BreakIndex(zones, i + 1, latitude, longitude)

\* updateLocation without the test of the status.
updateLocationAnyStatus(sender, latitude, longitude) ==
    IF onlyRegisteredTourist(sender)
      THEN LET located == [tourists EXCEPT ![sender].lastLatitude = latitude,
                                           ![sender].lastLongitude = longitude]
               hit == BreakIndex(contractZones, 1, latitude, longitude)
               alerting == hit # 0
           IN  /\ alerting => alertCounter < MaxAlerts
               /\ tourists' = IF alerting THEN [located EXCEPT ![sender].status = "Alert"]
                              ELSE located
               /\ IF alerting
                    THEN /\ alertCounter' = alertCounter + 1
                         /\ emergencyAlerts' =
                                Append(emergencyAlerts,
                                       EmergencyAlert(tourists', alertCounter', sender, "Alert",
                                                      contractZones[hit].name,
                                                      contractZones[hit].level))
                         /\ alertCount' = alertCount + 1
                    ELSE UNCHANGED << alertCounter, emergencyAlerts, alertCount >>
               /\ tx' = [ op |-> "updateLocation", sender |-> sender, reverted |-> FALSE,
                          latitude |-> latitude, longitude |-> longitude ]
               /\ UNCHANGED << owner, admins, isAdmin, touristIdToAddress, registeredTourists,
                               contractZones, zoneIdToIndex, touristCounter, zoneCounter,
                               clientVars, backendVars, appVars >>
    ELSE /\ tx' = [ op |-> "updateLocation", sender |-> sender, reverted |-> TRUE,
                    latitude |-> latitude, longitude |-> longitude ]
         /\ UNCHANGED << contractVars, clientVars, backendVars, appVars >>

\* updateLocation restoring Safe when no active zone contains the position.
updateLocationRestoring(sender, latitude, longitude) ==
    IF onlyRegisteredTourist(sender)
      THEN LET located == [tourists EXCEPT ![sender].lastLatitude = latitude,
                                           ![sender].lastLongitude = longitude]
               hit == BreakIndex(contractZones, 1, latitude, longitude)
               alerting == hit # 0 /\ located[sender].status = "Safe"
           IN  /\ alerting => alertCounter < MaxAlerts
               /\ tourists' = IF alerting THEN [located EXCEPT ![sender].status = "Alert"]
                              ELSE IF hit = 0 THEN [located EXCEPT ![sender].status = "Safe"]
                              ELSE located
               /\ IF alerting
                    THEN /\ alertCounter' = alertCounter + 1
                         /\ emergencyAlerts' =
                                Append(emergencyAlerts,
                                       EmergencyAlert(tourists', alertCounter', sender, "Alert",
                                                      contractZones[hit].name,
                                                      contractZones[hit].level))
                         /\ alertCount' = alertCount + 1
                    ELSE UNCHANGED << alertCounter, emergencyAlerts, alertCount >>
               /\ tx' = [ op |-> "updateLocation", sender |-> sender, reverted |-> FALSE,
                          latitude |-> latitude, longitude |-> longitude ]
               /\ UNCHANGED << owner, admins, isAdmin, touristIdToAddress, registeredTourists,
                               contractZones, zoneIdToIndex, touristCounter, zoneCounter,
                               clientVars, backendVars, appVars >>
    ELSE /\ tx' = [ op |-> "updateLocation", sender |-> sender, reverted |-> TRUE,
                    latitude |-> latitude, longitude |-> longitude ]
         /\ UNCHANGED << contractVars, clientVars, backendVars, appVars >>

updateLocation(sender, latitude, longitude) ==
    IF onlyRegisteredTourist(sender)
      THEN LET located == [tourists EXCEPT ![sender].lastLatitude = latitude,
                                           ![sender].lastLongitude = longitude]
               hit == BreakIndex(contractZones, 1, latitude, longitude)
               alerting == hit # 0 /\ located[sender].status = "Safe"
           IN  /\ alerting => alertCounter < MaxAlerts
               /\ tourists' = IF alerting THEN [located EXCEPT ![sender].status = "Alert"]
                              ELSE located
               /\ IF alerting
                    THEN /\ alertCounter' = alertCounter + 1
                         /\ emergencyAlerts' =
                                Append(emergencyAlerts,
                                       EmergencyAlert(tourists', alertCounter', sender, "Alert",
                                                      contractZones[hit].name,
                                                      contractZones[hit].level))
                         /\ alertCount' = alertCount + 1
                    ELSE UNCHANGED << alertCounter, emergencyAlerts, alertCount >>
               /\ tx' = [ op |-> "updateLocation", sender |-> sender, reverted |-> FALSE,
                          latitude |-> latitude, longitude |-> longitude ]
               /\ UNCHANGED << owner, admins, isAdmin, touristIdToAddress, registeredTourists,
                               contractZones, zoneIdToIndex, touristCounter, zoneCounter,
                               clientVars, backendVars, appVars >>
    ELSE /\ tx' = [ op |-> "updateLocation", sender |-> sender, reverted |-> TRUE,
                    latitude |-> latitude, longitude |-> longitude ]
         /\ UNCHANGED << contractVars, clientVars, backendVars, appVars >>

createDangerZone(sender, name, latitude, longitude, radius, level) ==
    IF onlyAdmin(sender) /\ name # "" /\ radius > 0
      THEN /\ zoneCounter < MaxZones
           /\ zoneCounter' = zoneCounter + 1
           /\ LET zoneId == "ZONE-" \o uint2str(zoneCounter')
              IN  /\ contractZones' =
                         Append(contractZones,
                                [ zoneId |-> zoneId, name |-> name, latitude |-> latitude,
                                  longitude |-> longitude, radius |-> radius, level |-> level,
                                  createdBy |-> sender, isActive |-> TRUE ])
                  /\ zoneIdToIndex' = (zoneId :> (Len(contractZones') - 1)) @@ zoneIdToIndex
           /\ Done("createDangerZone", sender)
           /\ UNCHANGED << owner, admins, isAdmin, tourists, touristIdToAddress,
                           registeredTourists, emergencyAlerts, alertCount, touristCounter,
                           alertCounter >>
    ELSE Revert("createDangerZone", sender)

\* Zone indices are the contract's: the first zone has index 0.
updateDangerZone(sender, zoneIndex, name, radius, level) ==
    IF onlyAdmin(sender) /\ zoneIndex < Len(contractZones) /\ contractZones[zoneIndex + 1].isActive
      THEN /\ contractZones' = [contractZones EXCEPT ![zoneIndex + 1].name = name,
                                                     ![zoneIndex + 1].radius = radius,
                                                     ![zoneIndex + 1].level = level]
           /\ Done("updateDangerZone", sender)
           /\ UNCHANGED << owner, admins, isAdmin, tourists, touristIdToAddress,
                           registeredTourists, zoneIdToIndex, emergencyAlerts, alertCount,
                           touristCounter, zoneCounter, alertCounter >>
    ELSE Revert("updateDangerZone", sender)

chainRemoveDangerZone(sender, zoneIndex) ==
    IF onlyAdmin(sender) /\ zoneIndex < Len(contractZones) /\ contractZones[zoneIndex + 1].isActive
      THEN /\ contractZones' = [contractZones EXCEPT ![zoneIndex + 1].isActive = FALSE]
           /\ Done("removeDangerZone", sender)
           /\ UNCHANGED << owner, admins, isAdmin, tourists, touristIdToAddress,
                           registeredTourists, zoneIdToIndex, emergencyAlerts, alertCount,
                           touristCounter, zoneCounter, alertCounter >>
    ELSE Revert("removeDangerZone", sender)

\* dismissAlert without the test for an earlier dismissal.
dismissAlertAgain(sender, alertIndex) ==
    IF onlyAdmin(sender) /\ alertIndex < Len(emergencyAlerts)
      THEN /\ emergencyAlerts' = [emergencyAlerts EXCEPT ![alertIndex + 1].isDismissed = TRUE]
           /\ alertCount' = alertCount - 1
           /\ Done("dismissAlert", sender)
           /\ UNCHANGED << owner, admins, isAdmin, tourists, touristIdToAddress,
                           registeredTourists, contractZones, zoneIdToIndex, touristCounter,
                           zoneCounter, alertCounter >>
    ELSE Revert("dismissAlert", sender)

dismissAlert(sender, alertIndex) ==
    IF onlyAdmin(sender) /\ alertIndex < Len(emergencyAlerts)
           /\ ~emergencyAlerts[alertIndex + 1].isDismissed
      THEN /\ emergencyAlerts' = [emergencyAlerts EXCEPT ![alertIndex + 1].isDismissed = TRUE]
           /\ alertCount' = alertCount - 1
           /\ Done("dismissAlert", sender)
           /\ UNCHANGED << owner, admins, isAdmin, tourists, touristIdToAddress,
                           registeredTourists, contractZones, zoneIdToIndex, touristCounter,
                           zoneCounter, alertCounter >>
    ELSE Revert("dismissAlert", sender)

\* An unfilled slot of a memory array of EmergencyAlert.
EmptyAlert ==
    [ alertId |-> "", tourist |-> ZeroAddress, touristId |-> "", status |-> "Safe",
      latitude |-> 0, longitude |-> 0, zoneName |-> "", zoneLevel |-> "Low",
      isDismissed |-> FALSE ]

\* getActiveAlerts (lines 556-566): an array of alertCount slots, filled
\* from the front with the alerts that are not dismissed; writing past its
\* end reverts.
getActiveAlerts ==
    LET active == SelectSeq(emergencyAlerts, LAMBDA x : ~x.isDismissed)
    IN  IF alertCount < 0 \/ Len(active) > alertCount
          THEN [reverted |-> TRUE]
        ELSE [ reverted |-> FALSE,
               value |-> active \o [k \in 1..(alertCount - Len(active)) |-> EmptyAlert] ]

\* The storage after the constructor.
InitContract ==
    /\ owner = Deployer
    /\ isAdmin = [a \in Wallets \cup {ZeroAddress} |-> a = Deployer]
    /\ admins = << Deployer >>
    /\ tourists = [a \in Addresses |-> NoTourist]
    /\ touristIdToAddress = [id \in TouristIds |-> ZeroAddress]
    /\ registeredTourists = << >>
    /\ contractZones = << >>
    /\ zoneIdToIndex = << >>
    /\ emergencyAlerts = << >>
    /\ alertCount = 0
    /\ touristCounter = 0
    /\ zoneCounter = 0
    /\ alertCounter = 0
    /\ tx = [op |-> "constructor", sender |-> Deployer, reverted |-> FALSE]

\* The forms an admin submits for a zone: two well-formed, one with radius 0.
ZoneArgs ==
    { [name |-> "Cliff", radius |-> 1, level |-> "High"],
      [name |-> "River", radius |-> 2, level |-> "Low"],
      [name |-> "Cliff", radius |-> 0, level |-> "High"] }

\* Geofencing on the contract: the deployer administers the zones, the
\* wallet 0xB1 is the tourist.
NextContract ==
    \/ \E username \in UserNames, id \in TouristIds :
          registerTourist("0xB1", username, "a@b.in", id)
    \/ updateStatus("0xB1", "Safe")
    \/ \E latitude \in ChainLats, longitude \in ChainLngs :
          updateLocation("0xB1", latitude, longitude)
    \/ \E z \in ZoneArgs :
          createDangerZone(Deployer, z.name, 90000000, 0, z.radius, z.level)
    \/ \E i \in 0..MaxZones, z \in ZoneArgs :
          updateDangerZone(Deployer, i, z.name, z.radius, z.level)
    \/ \E i \in 0..MaxZones : chainRemoveDangerZone(Deployer, i)

\* The zone registry and one tourist's locations: the status is only ever
\* raised here, so the tourist gets at most one alert.
NextZones ==
    \/ \E id \in TouristIds : registerTourist("0xB1", "asha", "a@b.in", id)
    \/ \E latitude \in ChainLats, longitude \in ChainLngs :
          updateLocation("0xB1", latitude, longitude)
    \/ \E z \in ZoneArgs :
          createDangerZone(Deployer, z.name, 90000000, 0, z.radius, z.level)
    \/ \E i \in 0..MaxZones, z \in ZoneArgs :
          updateDangerZone(Deployer, i, z.name, z.radius, z.level)
    \/ \E i \in 0..MaxZones : chainRemoveDangerZone(Deployer, i)

\* Two tourists report locations in any interleaving, around one zone that
\* the deployer creates and removes.
NextTourists ==
    \/ \E sender \in Addresses, id \in TouristIds :
          registerTourist(sender, "asha", "a@b.in", id)
    \/ \E sender \in Addresses, latitude \in {89999970, 89999990}, longitude \in ChainLngs :
          updateLocation(sender, latitude, longitude)
    \/ createDangerZone(Deployer, "Cliff", 90000000, 0, 1, "High")
    \/ \E i \in 0..MaxZones : chainRemoveDangerZone(Deployer, i)

\* Every function that changes the contract, called by the deployer and by
\* the wallet 0xB1, which registers as a tourist and is made admin and
\* removed again.
NextAccess ==
    \/ \E sender, a \in Addresses : addAdmin(sender, a)
    \/ \E sender, a \in Addresses : removeAdmin(sender, a)
    \/ \E id \in {"TID-3F9A0C-11B2"} : registerTourist("0xB1", "asha", "a@b.in", id)
    \/ \E sender \in Addresses, status \in {"Safe", "Danger"} : updateStatus(sender, status)
    \/ \E sender \in Addresses : updateLocation(sender, 89999990, 0)
    \/ \E sender \in Addresses : createDangerZone(sender, "Cliff", 90000000, 0, 1, "High")
    \/ \E sender \in Addresses : updateDangerZone(sender, 0, "River", 2, "Low")
    \/ \E sender \in Addresses : chainRemoveDangerZone(sender, 0)
    \/ \E sender \in Addresses : dismissAlert(sender, 0)

\* Every wallet tries to grant and to revoke admin rights, of the zero
\* address too.
NextAdmins ==
    \/ \E sender \in Wallets, a \in Wallets \cup {ZeroAddress} : addAdmin(sender, a)
    \/ \E sender \in Wallets, a \in Wallets \cup {ZeroAddress} : removeAdmin(sender, a)

\* The tourist 0xB1 goes in and out of the zone Cliff, declares Danger and
\* Safe, and the zone is removed.
NextTrips ==
    \/ registerTourist("0xB1", "asha", "a@b.in", "TID-3F9A0C-11B2")
    \/ \E status \in {"Safe", "Danger"} : updateStatus("0xB1", status)
    \/ \E latitude \in {89999970, 89999990} : updateLocation("0xB1", latitude, 0)
    \/ createDangerZone(Deployer, "Cliff", 90000000, 0, 1, "High")
    \/ chainRemoveDangerZone(Deployer, 0)

\* Alerts from status updates and zone entries of the tourist 0xB1, and
\* their dismissal by the deployer.
NextAlerts ==
    \/ registerTourist("0xB1", "asha", "a@b.in", "TID-3F9A0C-11B2")
    \/ \E status \in {"Safe", "Danger"} : updateStatus("0xB1", status)
    \/ updateLocation("0xB1", 89999990, 0)
    \/ createDangerZone(Deployer, "Cliff", 90000000, 0, 1, "High")
    \/ \E i \in 0..MaxAlerts : dismissAlert(Deployer, i)

\* Registration and status updates by every wallet.
NextRegistry ==
    \/ \E sender \in Addresses, id \in TouristIds :
          registerTourist(sender, "asha", "a@b.in", id)
    \/ \E sender \in Addresses, status \in SafetyStatus : updateStatus(sender, status)

\* -------------------------------------------------------------------------
\* The admin's browser: AuthProvider, AdminLogin and AdminDashboard

\* The verifyAdminOnChain calls that may be in flight at once.
MaxCalls == 2

\* JavaScript's null where the other values are strings.
Absent == "null"

StorageKeys == {"adminWalletAddress", "isAdmin"}

LoginPage == "/admin-login"
AdminPage == "/admin"

Without(seq, k) == [j \in 1..(Len(seq) - 1) |-> IF j < k THEN seq[j] ELSE seq[j + 1]]

OutsideAuth == UNCHANGED << clientVars, backendVars, contractVars, tx, chainCall, apiVars >>

\* verifyAdminOnChain up to its first await.
verifyAdminOnChain(address) ==
    /\ Len(verifications) < MaxCalls
    /\ isVerifyingAdmin' = TRUE
    /\ verifications' = Append(verifications, [walletAddress |-> address, answer |-> "pending"])

\* AuthProvider's mount effect: a wallet verified earlier is verified again.
AuthProviderMount ==
    /\ ~booted
    /\ booted' = TRUE
    /\ IF localStorage["adminWalletAddress"] # Absent
         THEN verifyAdminOnChain(localStorage["adminWalletAddress"])
         ELSE UNCHANGED << isVerifyingAdmin, verifications >>
    /\ UNCHANGED << authIsAdmin, adminWalletAddress, localStorage, walletAddress, page,
                    admitted >>
    /\ OutsideAuth

\* contractService.initialize() and contractService.isAdmin(walletAddress):
\* the contract answers, or one of the two throws.
isAdminAnswers(k, throws) ==
    /\ k \in 1..Len(verifications)
    /\ verifications[k].answer = "pending"
    /\ verifications' =
         [verifications EXCEPT ![k].answer =
            IF throws THEN "throws"
            ELSE IF isAdmin[verifications[k].walletAddress] THEN "true" ELSE "false"]
    /\ UNCHANGED << authIsAdmin, adminWalletAddress, isVerifyingAdmin, localStorage, booted,
                    walletAddress, page, admitted >>
    /\ OutsideAuth

\* verifyAdminOnChain after its awaits: the branches of the try, the catch
\* and the finally.
verifyAdminOnChainSettles(k) ==
    /\ k \in 1..Len(verifications)
    /\ verifications[k].answer # "pending"
    /\ IF verifications[k].answer = "true"
         THEN /\ authIsAdmin' = TRUE
              /\ adminWalletAddress' = verifications[k].walletAddress
              /\ localStorage' = [localStorage EXCEPT
                                    !["adminWalletAddress"] = verifications[k].walletAddress]
         ELSE /\ authIsAdmin' = FALSE
              /\ adminWalletAddress' = Absent
              /\ localStorage' = [localStorage EXCEPT !["adminWalletAddress"] = Absent]
    /\ isVerifyingAdmin' = FALSE
    /\ verifications' = Without(verifications, k)
    /\ UNCHANGED << booted, walletAddress, page, admitted >>
    /\ OutsideAuth

logout ==
    /\ booted
    /\ authIsAdmin' = FALSE
    /\ localStorage' = [localStorage EXCEPT !["isAdmin"] = Absent]
    /\ UNCHANGED << adminWalletAddress, isVerifyingAdmin, verifications, booted,
                    walletAddress, page, admitted >>
    /\ OutsideAuth

adminLogout ==
    /\ booted
    /\ authIsAdmin' = FALSE
    /\ adminWalletAddress' = Absent
    /\ localStorage' = [localStorage EXCEPT !["adminWalletAddress"] = Absent]
    /\ UNCHANGED << isVerifyingAdmin, verifications, booted, walletAddress, page,
                    admitted >>
    /\ OutsideAuth

\* AdminLogin's effect on [isConnected, walletAddress], at mount.
AdminLoginMount ==
    /\ booted
    /\ page = [path |-> LoginPage, ready |-> FALSE]
    /\ page' = [path |-> LoginPage, ready |-> TRUE]
    /\ IF walletAddress # Absent
         THEN verifyAdminOnChain(walletAddress)
         ELSE UNCHANGED << isVerifyingAdmin, verifications >>
    /\ UNCHANGED << authIsAdmin, adminWalletAddress, localStorage, booted, walletAddress,
                    admitted >>
    /\ OutsideAuth

\* The wallet connects, or switches account, on AdminLogin: the same effect.
connectWallet(address) ==
    /\ page = [path |-> LoginPage, ready |-> TRUE]
    /\ walletAddress # address
    /\ walletAddress' = address
    /\ verifyAdminOnChain(address)
    /\ UNCHANGED << authIsAdmin, adminWalletAddress, localStorage, booted, page, admitted >>
    /\ OutsideAuth

\* AdminLogin's effect on [isAdmin, navigate].
AdminLoginNavigate ==
    /\ page = [path |-> LoginPage, ready |-> TRUE]
    /\ authIsAdmin
    /\ page' = [path |-> AdminPage, ready |-> FALSE]
    /\ UNCHANGED << authIsAdmin, adminWalletAddress, isVerifyingAdmin, localStorage,
                    verifications, booted, walletAddress, admitted >>
    /\ OutsideAuth

\* AdminDashboard's mount effect: the access guard.
AdminDashboardMount ==
    /\ page = [path |-> AdminPage, ready |-> FALSE]
    /\ IF localStorage["isAdmin"] # "true"
         THEN /\ page' = [path |-> LoginPage, ready |-> FALSE]
              /\ admitted' = FALSE
         ELSE /\ page' = [path |-> AdminPage, ready |-> TRUE]
              /\ admitted' = TRUE
    /\ UNCHANGED << authIsAdmin, adminWalletAddress, isVerifyingAdmin, localStorage,
                    verifications, booted, walletAddress >>
    /\ OutsideAuth

\* The page is loaded again: React state is lost, localStorage is kept.
Reload ==
    /\ booted
    /\ booted' = FALSE
    /\ authIsAdmin' = FALSE
    /\ adminWalletAddress' = Absent
    /\ isVerifyingAdmin' = FALSE
    /\ verifications' = << >>
    /\ walletAddress' = Absent
    /\ page' = [path |-> page.path, ready |-> FALSE]
    /\ admitted' = FALSE
    /\ UNCHANGED localStorage
    /\ OutsideAuth

\* A first visit to /admin-login with an empty localStorage.
InitAuth ==
    /\ authIsAdmin = FALSE
    /\ adminWalletAddress = Absent
    /\ isVerifyingAdmin = FALSE
    /\ localStorage = [key \in StorageKeys |-> Absent]
    /\ verifications = << >>
    /\ booted = FALSE
    /\ walletAddress = Absent
    /\ page = [path |-> LoginPage, ready |-> FALSE]
    /\ admitted = FALSE

\* The steps the browser takes by itself: effects and promise continuations.
AuthEffects ==
    \/ AuthProviderMount
    \/ AdminLoginMount
    \/ AdminLoginNavigate
    \/ AdminDashboardMount
    \/ \E k \in 1..MaxCalls : isAdminAnswers(k, FALSE)
    \/ \E k \in 1..MaxCalls : verifyAdminOnChainSettles(k)

\* Admin sign-in: the deployer grants and revokes 0xB1 on-chain while the
\* browser connects wallets, verifies them, logs out and reloads.
NextAuth ==
    \/ AuthEffects
    \/ \E k \in 1..MaxCalls : isAdminAnswers(k, TRUE)
    \/ \E address \in Addresses : connectWallet(address)
    \/ logout
    \/ adminLogout
    \/ Reload
    \/ addAdmin(Deployer, "0xB1")
    \/ removeAdmin(Deployer, "0xB1")

\* -------------------------------------------------------------------------
\* AdminDashboard with the contract connected (isContractInitialized)

NoCall == [op |-> "none"]

\* contractService.createDangerZone's levelMap, with its default.
levelValue(level) ==
    IF level = "Low Risk" THEN "Low"
    ELSE IF level = "Medium Risk" THEN "Medium"
    ELSE IF level = "High Risk" THEN "High"
    ELSE IF level = "Critical" THEN "Critical"
    ELSE "Medium"

\* toContractCoordinate, from millidegrees: degrees times 1000000.
toContractCoordinate(coord) == coord * 1000

\* AdminDashboard.addDangerZone up to its await: the zone is built and the
\* createDangerZone transaction is submitted by the connected wallet. The
\* radius is handed over in metres; BigInt throws on a broken number, and no
\* transaction is submitted.
addDangerZoneConnected(sender, form) ==
    /\ chainCall = NoCall
    /\ now < MaxZones
    /\ now' = now + 1
    /\ lastCall' = [op |-> "addDangerZone", user |-> ""]
    /\ IF form.radius % 100 # 0
         THEN UNCHANGED << chainCall, tx >>
         ELSE /\ chainCall' =
                   [ op |-> "addDangerZone", sender |-> sender, dangerZones |-> dangerZones,
                     zone |-> [ id |-> ToString(now'), name |-> form.name, lat |-> form.lat,
                                lng |-> form.lng, radius |-> form.radius,
                                level |-> form.level ] ]
              /\ tx' = [op |-> "submitted", sender |-> sender, reverted |-> FALSE]
    /\ UNCHANGED << userLocation, userStatus, notifiedZones, adminNotified, dangerZones,
                    dangerZoneAlerts, evaluated, contacted, firstContact, toasts, alertsOut,
                    stamps, backendVars, contractVars, authVars, apiVars >>

\* The submitted createDangerZone transaction is executed.
createDangerZoneMined ==
    /\ chainCall.op = "addDangerZone"
    /\ tx.op = "submitted"
    /\ createDangerZone(chainCall.sender, chainCall.zone.name,
                        toContractCoordinate(chainCall.zone.lat),
                        toContractCoordinate(chainCall.zone.lng),
                        chainCall.zone.radius \div 100, levelValue(chainCall.zone.level))

\* AdminDashboard.removeDangerZone: a zone with a blockchainId is removed
\* on-chain first, any other zone is removed from the stored list at once.
removeDangerZoneConnected(sender, id) ==
    /\ \E i \in 1..Len(dangerZones) : dangerZones[i].id = id
    /\ lastCall' = [op |-> "removeDangerZone", user |-> ""]
    /\ LET zone == dangerZones[CHOOSE i \in 1..Len(dangerZones) : dangerZones[i].id = id]
       IN  IF "blockchainId" \in DOMAIN zone
             THEN /\ chainCall = NoCall
                  /\ chainCall' = [ op |-> "removeDangerZone", sender |-> sender,
                                    dangerZones |-> dangerZones, zone |-> zone ]
                  /\ tx' = [op |-> "submitted", sender |-> sender, reverted |-> FALSE]
                  /\ UNCHANGED dangerZones
             ELSE /\ dangerZones' = SelectSeq(dangerZones, LAMBDA z : z.id # id)
                  /\ UNCHANGED << chainCall, tx >>
    /\ UNCHANGED << userLocation, userStatus, notifiedZones, adminNotified, dangerZoneAlerts,
                    now, evaluated, contacted, firstContact, toasts, alertsOut, stamps,
                    backendVars, contractVars, authVars, apiVars >>

\* The awaited call has settled and the handler goes on: it returns if the
\* call failed, and otherwise stores the list it saw when it was called, with
\* the zone appended or filtered out.
handlerResumes ==
    /\ chainCall # NoCall
    /\ tx.op = (IF chainCall.op = "addDangerZone" THEN "createDangerZone" ELSE "removeDangerZone")
    /\ dangerZones' =
         IF tx.reverted THEN dangerZones
         ELSE IF chainCall.op = "addDangerZone"
           THEN Append(chainCall.dangerZones, chainCall.zone)
         ELSE SelectSeq(chainCall.dangerZones, LAMBDA z : z.id # chainCall.zone.id)
    /\ chainCall' = NoCall
    /\ UNCHANGED << userLocation, userStatus, notifiedZones, adminNotified, dangerZoneAlerts,
                    now, lastCall, evaluated, contacted, firstContact, toasts, alertsOut,
                    stamps, backendVars, contractVars, tx, authVars, apiVars >>

InitDashboard == chainCall = NoCall

\* The forms an admin submits while connected: radii in whole metres, and
\* one that is not.
ConnectedForms ==
    { [name |-> "Cliff", lat |-> 10000, lng |-> 20000, radius |-> 50000, level |-> "high"],
      [name |-> "River", lat |-> 10010, lng |-> 20000, radius |-> 150000, level |-> "low"],
      [name |-> "Cliff", lat |-> 10000, lng |-> 20000, radius |-> 55595, level |-> "high"] }

\* An admin wallet and a wallet without admin rights add and remove zones in
\* the dashboard.
NextDashboard ==
    \/ \E sender \in Addresses, form \in ConnectedForms : addDangerZoneConnected(sender, form)
    \/ createDangerZoneMined
    \/ handlerResumes
    \/ \E sender \in Addresses, i \in 1..MaxZones : removeDangerZoneConnected(sender, ToString(i))

\* -------------------------------------------------------------------------
\* The hook useAPI

\* The requests made through execute.
ApiCalls == {"getAllUsers", "getDangerZones", "getActiveAlerts"}

\* How an apiCall settles: it resolves with success and data, resolves
\* without success, with an error text or without one, or rejects with an
\* Error or with something else.
Outcomes ==
    { [kind |-> "data"],
      [kind |-> "failure", error |-> "User not found"],
      [kind |-> "failure", error |-> Absent],
      [kind |-> "Error", message |-> "API request failed"],
      [kind |-> "thrown"] }

\* The message of the catch block (lines 17-22).
message(outcome) ==
    IF outcome.kind = "failure"
      THEN (IF outcome.error # Absent THEN outcome.error ELSE "API call failed")
    ELSE IF outcome.kind = "Error" THEN outcome.message
    ELSE "An error occurred"

\* execute up to its await (lines 12-16).
execute(apiCall) ==
    /\ Len(apiCalls) < MaxCalls
    /\ isLoading' = TRUE
    /\ error' = Absent
    /\ apiCalls' = Append(apiCalls, apiCall)
    /\ UNCHANGED << returned, clientVars, backendVars, contractVars, tx, authVars, chainCall >>

\* execute after its await (lines 16-32): the return of the try or the
\* catch, and the finally.
executeSettles(k, outcome) ==
    /\ k \in 1..Len(apiCalls)
    /\ IF outcome.kind = "data"
         THEN /\ returned' = [call |-> apiCalls[k], value |-> "data"]
              /\ UNCHANGED error
         ELSE /\ error' = message(outcome)
              /\ returned' = [call |-> apiCalls[k], value |-> Absent]
    /\ isLoading' = FALSE
    /\ apiCalls' = Without(apiCalls, k)
    /\ UNCHANGED << clientVars, backendVars, contractVars, tx, authVars, chainCall >>

InitAPI ==
    /\ isLoading = FALSE
    /\ error = Absent
    /\ apiCalls = << >>
    /\ returned = [call |-> Absent, value |-> Absent]

NextAPI ==
    \/ \E apiCall \in ApiCalls : execute(apiCall)
    \/ \E k \in 1..MaxCalls, outcome \in Outcomes : executeSettles(k, outcome)

\* The browser loads a user with whatever status was stored.
InitLoaded ==
    InitClient /\ InitBackend /\ InitContract /\ InitAuth /\ InitDashboard /\ InitAPI

\* The same with every user's stored status safe.
Init == InitLoaded /\ \A s \in Subjects : userStatus[s] = "safe"

SpecClient == InitLoaded /\ [][NextClient]_vars

SpecFeed == Init /\ [][NextFeed]_vars

SpecSession == Init /\ [][NextSession]_vars

SpecBackend == Init /\ [][NextBackend]_vars

SpecContract == Init /\ [][NextContract]_vars

SpecRegistry == Init /\ [][NextRegistry]_vars

SpecAccess == Init /\ [][NextAccess]_vars

SpecAlerts == Init /\ [][NextAlerts]_vars

SpecAdmins == Init /\ [][NextAdmins]_vars

SpecAPI == Init /\ [][NextAPI]_vars

SpecTrips == Init /\ [][NextTrips]_vars

SpecDashboard == Init /\ [][NextDashboard]_vars

SpecZones == Init /\ [][NextZones]_vars

SpecTourists == Init /\ [][NextTourists]_vars

SpecAuth == Init /\ [][NextAuth]_vars

\* The same, with the browser's own steps never postponed forever: React
\* runs a mounted component's effects, and a settled promise's continuation
\* runs on the next turn of the event loop.
SpecAuthFair ==
    /\ SpecAuth
    /\ WF_vars(AuthProviderMount)
    /\ WF_vars(AdminLoginMount)
    /\ WF_vars(AdminLoginNavigate)
    /\ WF_vars(AdminDashboardMount)
    /\ \A k \in 1..MaxCalls :
          /\ WF_vars(isAdminAnswers(k, FALSE) \/ isAdminAnswers(k, TRUE))
          /\ WF_vars(verifyAdminOnChainSettles(k))

\* -------------------------------------------------------------------------
\* Properties of the client hook

IsEvaluation(call, s) == call = [op |-> "updateLocation", user |-> s]

\* The kinds of the toasts about one zone key, in order.
RECURSIVE KindsFor(_, _)
KindsFor(key, ts) ==
    IF ts = << >> THEN << >>
    ELSE (IF Head(ts).key = key THEN << Head(ts).kind >> ELSE << >>) \o KindsFor(key, Tail(ts))

\* C1: for every user and every zone of the user's most recent evaluation,
\* the zone's key is in notifiedZones if and only if the user's most recently
\* evaluated location is within the zone's radius of its centre.
C1_MembershipMatchesLastSample ==
    \A s \in Subjects :
        userLocation[s] # Null =>
            \A i \in 1..Len(evaluated[s]) :
                LET zone == evaluated[s][i]
                IN  (zoneKey(s, zone.id) \in notifiedZones[s]) <=> Contains(zone, userLocation[s])

\* A user has entered a zone earlier and the most recent evaluation found the
\* user outside it, while another zone holds the user.
C1_Witness ==
    \E s \in Subjects :
        /\ userLocation[s] # Null
        /\ \E i, j \in 1..Len(evaluated[s]) :
              /\ zoneKey(s, evaluated[s][i].id) \in adminNotified[s] \ notifiedZones[s]
              /\ ~Contains(evaluated[s][i], userLocation[s])
              /\ zoneKey(s, evaluated[s][j].id) \in notifiedZones[s]

\* C2: in every evaluation and for every zone of the list, a toast is shown
\* exactly when containment differs from the stored key (Entered when the key
\* was absent and the location is inside, Left when it was present and the
\* location is outside), and afterwards the key is stored exactly when the
\* location is inside; with containment equal to the stored key there is no
\* toast and the key stays as it was.
C2_OneTransitionPerChange ==
    [][ \A s \in Subjects :
          IsEvaluation(lastCall', s) =>
            \A i \in 1..Len(dangerZones) :
                LET zone   == dangerZones[i]
                    key    == zoneKey(s, zone.id)
                    prior  == key \in notifiedZones[s]
                    inside == Contains(zone, userLocation'[s])
                IN  /\ KindsFor(key, toasts') =
                          IF inside /\ ~prior THEN << "Entered" >>
                          ELSE IF ~inside /\ prior THEN << "Left" >>
                          ELSE << >>
                    /\ (key \in notifiedZones'[s]) <=> inside
      ]_vars

\* An evaluation of two zones showed a toast for one and none for the other.
C2_Witness ==
    \E s \in Subjects :
        /\ IsEvaluation(lastCall, s)
        /\ Len(evaluated[s]) = 2
        /\ Len(toasts) = 1
        /\ toasts[1].kind = "Left"
        /\ notifiedZones[s] # {}

\* C7: between two successive evaluations of a user with no other call in
\* between, a zone of the list gets exactly one Left when the location went
\* from inside to outside, exactly one Entered when it went from outside to
\* inside, and no toast when both locations are on the same side.
C7_CrossingsToastOnce ==
    [][ \A s \in Subjects :
          (IsEvaluation(lastCall, s) /\ IsEvaluation(lastCall', s)) =>
            \A i \in 1..Len(dangerZones) :
                LET zone == dangerZones[i]
                    key  == zoneKey(s, zone.id)
                    was  == Contains(zone, userLocation[s])
                    is   == Contains(zone, userLocation'[s])
                IN  KindsFor(key, toasts') =
                        IF was /\ ~is THEN << "Left" >>
                        ELSE IF ~was /\ is THEN << "Entered" >>
                        ELSE << >>
      ]_vars

\* A user is back in a zone left earlier: the evaluation toasts Entered for a
\* key that was reported to the admin before, so that no alert is stored.
C7_Witness ==
    \E s \in Subjects :
        /\ IsEvaluation(lastCall, s)
        /\ \E i \in 1..Len(toasts) :
              /\ toasts[i].kind = "Entered"
              /\ toasts[i].key \in adminNotified[s]
              /\ \A j \in 1..Len(alertsOut) : alertsOut[j].key # toasts[i].key

\* C8: a zone key that an evaluation meets for the first time is evaluated
\* as not stored: exactly one Entered toast if the location is inside the
\* zone, no toast otherwise.
C8_FirstContact ==
    \A s \in Subjects :
        IsEvaluation(lastCall, s) =>
            \A i \in 1..Len(evaluated[s]) :
                LET zone == evaluated[s][i]
                    key  == zoneKey(s, zone.id)
                IN  key \in firstContact =>
                        KindsFor(key, toasts) =
                            IF Contains(zone, userLocation[s]) THEN << "Entered" >> ELSE << >>

\* The first evaluation of a user against a zone finds the user inside it.
C8_Witness ==
    \E s \in Subjects :
        /\ IsEvaluation(lastCall, s)
        /\ \E i \in 1..Len(toasts) :
              toasts[i].kind = "Entered" /\ toasts[i].key \in firstContact

\* The zones for which the most recent evaluation toasted Entered on their
\* first evaluation for the user, in the order of the toasts.
RECURSIVE NewlyEntered(_)
NewlyEntered(ts) ==
    IF ts = << >> THEN << >>
    ELSE (IF Head(ts).kind = "Entered" /\ Head(ts).key \in firstContact
            THEN << Head(ts).key >> ELSE << >>) \o NewlyEntered(Tail(ts))

\* C4: an evaluation in which the user enters two or more zones not entered
\* before stores exactly one admin alert, and that alert is about the first
\* of these zones in the order of the list.
C4_OneAlertForSeveralZones ==
    \A s \in Subjects :
        (IsEvaluation(lastCall, s) /\ Len(NewlyEntered(toasts)) >= 2) =>
            /\ Len(alertsOut) = 1
            /\ alertsOut[1].key = NewlyEntered(toasts)[1]

\* C5: an evaluation of a user whose status is alert or danger stores no
\* admin alert, whatever zones the user enters in it.
C5_ElevatedStatusNoAlert ==
    \A s \in Subjects :
        (IsEvaluation(lastCall, s) /\ userStatus[s] \in {"alert", "danger"}) =>
            alertsOut = << >>

\* C25: an evaluation stores an admin alert only for zone keys that were not
\* reported to the admin before, at most one for each, and reports them; a
\* reported key stays reported until clearNotifications; and a user who is
\* inside a zone whose key is not in notifiedZones gets the Entered toast,
\* whether or not the key was reported.
C25_AdminAlertOncePerSession ==
    [][ \A s \in Subjects :
          /\ lastCall' # [op |-> "clearNotifications", user |-> s]
                => adminNotified[s] \subseteq adminNotified'[s]
          /\ lastCall'.op # "updateLocation" => dangerZoneAlerts' = dangerZoneAlerts
          /\ IsEvaluation(lastCall', s) =>
                /\ dangerZoneAlerts' = dangerZoneAlerts \o alertsOut'
                /\ \A j \in 1..Len(alertsOut') :
                      /\ alertsOut'[j].key \notin adminNotified[s]
                      /\ alertsOut'[j].key \in adminNotified'[s]
                      /\ \A k \in 1..Len(alertsOut') :
                            alertsOut'[k].key = alertsOut'[j].key => k = j
                /\ \A i \in 1..Len(dangerZones) :
                      LET key == zoneKey(s, dangerZones[i].id)
                      IN  (key \notin notifiedZones[s] /\ Contains(dangerZones[i], userLocation'[s]))
                             => KindsFor(key, toasts') = << "Entered" >>
      ]_vars

\* A user is back in a zone left earlier: the evaluation toasts Entered and
\* stores nothing, the one alert about the zone being the one of the first
\* entry.
C25_Witness ==
    \E s \in Subjects :
        /\ IsEvaluation(lastCall, s)
        /\ Len(toasts) = 1
        /\ toasts[1].kind = "Entered"
        /\ alertsOut = << >>
        /\ Len(dangerZoneAlerts) = 1
        /\ dangerZoneAlerts[1].key = toasts[1].key

\* -------------------------------------------------------------------------
\* Properties of the backend

Issued(r) == { requests[r].issued[k] : k \in 1..Len(requests[r].issued) }

SameUser(q, r) == requests[q].user = requests[r].user

C6_OverlappingPostsAlertOnce ==
    \A q, r \in ReqIds :
        ( /\ q # r
          /\ requests[q].pc # "none"
          /\ requests[r].pc # "none"
          /\ q \in requests[r].with
          /\ SameUser(q, r) )
        => Issued(q) \cap Issued(r) = {}

\* C21: once a POST /api/locations is answered, the alerts table holds, for
\* every zone of the request's snapshot that contains the posted location, a
\* row for the request's user and that zone that is not dismissed.
C21_ZoneEntryStoresAlert ==
    \A r \in ReqIds :
        requests[r].pc = "done" =>
            \A j \in 1..Len(requests[r].zones) :
                InsideRow(requests[r], requests[r].zones[j]) =>
                    \E k \in 1..Len(alerts) :
                        /\ alerts[k].user_id = requests[r].user
                        /\ alerts[k].zone_name = requests[r].zones[j].name
                        /\ ~alerts[k].dismissed

\* -------------------------------------------------------------------------
\* Properties of the contract

\* C9: an updateLocation whose latitude is outside [-90, 90] degrees or whose
\* longitude is outside [-180, 180] degrees reverts, leaving the storage as
\* it was.
C9_InvalidSampleRejected ==
    ( /\ tx.op = "updateLocation"
      /\ \/ tx.latitude \notin (-90000000)..90000000
         \/ tx.longitude \notin (-180000000)..180000000 )
    => tx.reverted

\* C10: every active zone of the contract has a radius greater than 0.
C10_ActiveZonesHavePositiveRadius ==
    \A i \in 1..Len(contractZones) :
        contractZones[i].isActive => contractZones[i].radius > 0

\* The zones, active or not, that contain a position.
ZonesAround(latitude, longitude) ==
    { i \in 1..Len(contractZones) : InDangerZone(contractZones[i], latitude, longitude) }

\* C11: a zone that is inactive stays in the registry as it is, inactive, in
\* every step; and an updateLocation at a position that no active zone
\* contains leaves every tourist's status and the alerts as they were.
C11_InactiveZonesRetainedAndIgnored ==
    [][ /\ \A i \in 1..Len(contractZones) :
              ~contractZones[i].isActive =>
                  /\ i <= Len(contractZones')
                  /\ contractZones'[i] = contractZones[i]
        /\ ( /\ tx'.op = "updateLocation"
             /\ ~tx'.reverted
             /\ \A i \in ZonesAround(tx'.latitude, tx'.longitude) : ~contractZones[i].isActive )
           => /\ \A a \in Addresses : tourists'[a].status = tourists[a].status
              /\ emergencyAlerts' = emergencyAlerts
              /\ alertCount' = alertCount
      ]_vars

\* A tourist whose status is Safe has reported a position inside a removed
\* zone, with no active zone around it.
C11_Witness ==
    /\ tx.op = "updateLocation"
    /\ ~tx.reverted
    /\ tourists[tx.sender].status = "Safe"
    /\ ZonesAround(tx.latitude, tx.longitude) # {}
    /\ \A i \in ZonesAround(tx.latitude, tx.longitude) : ~contractZones[i].isActive

\* C12 as stated: an updateLocation leaves the zone registry and the
\* caller's status as they were.
C12_EvaluationKeepsZonesAndStatus ==
    [][ (tx'.op = "updateLocation" /\ ~tx'.reverted) =>
            /\ contractZones' = contractZones
            /\ tourists'[tx'.sender].status = tourists[tx'.sender].status
      ]_vars

\* C12 amended: an updateLocation leaves the zone registry and every other
\* tourist's status as they were; the caller's status becomes Alert, with one
\* alert added, if it was Safe and an active zone contains the position, and
\* stays as it was, with no alert added, otherwise.
C12_EvaluationKeepsZonesRaisesSafe ==
    [][ (tx'.op = "updateLocation" /\ ~tx'.reverted) =>
            LET a      == tx'.sender
                raised == /\ tourists[a].status = "Safe"
                          /\ \E i \in ZonesAround(tx'.latitude, tx'.longitude) :
                                contractZones[i].isActive
            IN  /\ contractZones' = contractZones
                /\ zoneIdToIndex' = zoneIdToIndex
                /\ \A b \in Addresses \ {a} : tourists'[b].status = tourists[b].status
                /\ tourists'[a].status = IF raised THEN "Alert" ELSE tourists[a].status
                /\ Len(emergencyAlerts') = Len(emergencyAlerts) + (IF raised THEN 1 ELSE 0)
      ]_vars

\* A tourist on Alert has reported a position inside an active zone after
\* the alert was created: the alert carries another position.
C12_Witness ==
    /\ tx.op = "updateLocation"
    /\ ~tx.reverted
    /\ tourists[tx.sender].status = "Alert"
    /\ \E i \in ZonesAround(tx.latitude, tx.longitude) : contractZones[i].isActive
    /\ Len(emergencyAlerts) = 1
    /\ emergencyAlerts[1].latitude # tx.latitude

\* The alerts of a list that are attributed to a tourist.
AlertsOf(list, b) == SelectSeq(list, LAMBDA x : x.tourist = b)

\* C13: an updateLocation of one tourist leaves the record (location, status,
\* id) of every other tourist and the alerts attributed to every other
\* tourist as they were.
C13_OtherTouristsUntouched ==
    [][ (tx'.op = "updateLocation" /\ ~tx'.reverted) =>
            \A b \in Addresses \ {tx'.sender} :
                /\ tourists'[b] = tourists[b]
                /\ AlertsOf(emergencyAlerts', b) = AlertsOf(emergencyAlerts, b)
      ]_vars

\* Two tourists are on Alert, each with an alert of its own, and the one
\* whose alert is older has reported a location after the other's alert.
C13_Witness ==
    /\ tx.op = "updateLocation"
    /\ ~tx.reverted
    /\ \A a \in Addresses : tourists[a].status = "Alert"
    /\ Len(emergencyAlerts) = 2
    /\ emergencyAlerts[1].tourist = tx.sender
    /\ emergencyAlerts[2].tourist # tx.sender
    /\ emergencyAlerts[1].latitude # tx.latitude

\* The position of a zone id in a list of zones.
PositionOf(id, zones) == CHOOSE i \in 1..Len(zones) : zones[i].id = id

C16_TimestampWithoutEffect ==
    [][ \A s \in Subjects :
          IsEvaluation(lastCall', s) =>
            \A t \in Timestamps \cup {stamps'[2]} :
                LET loc == newLocation(Stamped(userLocation'[s], t))
                    r   == Detect(s, loc)
                IN  /\ userLocation'[s] = loc
                    /\ notifiedZones'[s] = r.notified
                    /\ adminNotified'[s] = r.admin
                    /\ toasts' = r.toasts
                    /\ alertsOut' = r.stored
      ]_vars

\* A position stamped earlier than the one before it was evaluated and took
\* the user into a zone, with an alert stored.
C16_Witness ==
    \E s \in Subjects :
        /\ IsEvaluation(lastCall, s)
        /\ stamps[1] > stamps[2]
        /\ stamps[2] > 0
        /\ Len(toasts) = 1
        /\ toasts[1].kind = "Entered"
        /\ Len(alertsOut) = 1

\* Whether the claim lets a caller succeed with a function of the contract.
Permitted(op, sender) ==
    CASE op \in {"addAdmin", "removeAdmin"} -> sender = owner
      [] op \in {"createDangerZone", "updateDangerZone", "removeDangerZone", "dismissAlert"} ->
            isAdmin[sender] \/ sender = owner
      [] op \in {"updateStatus", "updateLocation"} -> tourists[sender].isActive
      [] OTHER -> TRUE

\* C17: a transaction that succeeds was sent by a caller whom the function
\* permits (the owner for addAdmin and removeAdmin; an admin or the owner for
\* createDangerZone, updateDangerZone, removeDangerZone and dismissAlert; a
\* registered tourist for updateStatus and updateLocation), and a transaction
\* that reverts leaves the whole storage as it was.
C17_OnlyPermittedCallersSucceed ==
    [][ /\ ~tx'.reverted => Permitted(tx'.op, tx'.sender)
        /\ tx'.reverted => contractVars' = contractVars
      ]_vars

\* The wallet 0xB1, a registered tourist and not an admin, called
\* dismissAlert for an alert that is there and not dismissed, and the call
\* reverted.
C17_Witness ==
    /\ tx = [op |-> "dismissAlert", sender |-> "0xB1", reverted |-> TRUE]
    /\ ~isAdmin["0xB1"]
    /\ tourists["0xB1"].isActive
    /\ Len(emergencyAlerts) >= 1
    /\ ~emergencyAlerts[1].isDismissed

\* C18: two distinct registered wallets never hold the same touristId, and
\* touristIdToAddress leads from every registered wallet's touristId back to
\* the wallet.
C18_TouristIdsUnique ==
    /\ \A a, b \in Addresses :
          (a # b /\ tourists[a].isActive /\ tourists[b].isActive)
              => tourists[a].touristId # tourists[b].touristId
    /\ \A w \in Addresses :
          tourists[w].isActive => touristIdToAddress[tourists[w].touristId] = w

\* How often a wallet stands in registeredTourists.
TimesRegistered(list, w) == Cardinality({ i \in 1..Len(list) : list[i] = w })

\* C19: registerTourist by a wallet that is registered reverts and leaves the
\* storage as it was; a registerTourist that succeeds leaves the caller
\* registered with status Safe; and registeredTourists holds every registered
\* wallet once and no other wallet.
C19_RegisteredOnce ==
    [][ /\ (tx'.op = "registerTourist" /\ tourists[tx'.sender].isActive)
              => (tx'.reverted /\ contractVars' = contractVars)
        /\ (tx'.op = "registerTourist" /\ ~tx'.reverted)
              => (tourists'[tx'.sender].isActive /\ tourists'[tx'.sender].status = "Safe")
        /\ \A w \in Addresses :
              TimesRegistered(registeredTourists', w) = IF tourists'[w].isActive THEN 1 ELSE 0
      ]_vars

\* A registered tourist whose status is Danger called registerTourist again:
\* the call reverted, the status is still Danger.
C19_Witness ==
    /\ tx.op = "registerTourist"
    /\ tx.reverted
    /\ tourists[tx.sender].isActive
    /\ tourists[tx.sender].status = "Danger"
    /\ Len(registeredTourists) = 2

\* C20: an updateStatus that succeeds leaves the caller with the requested
\* status; if that status is Alert or Danger, whatever the status was, it
\* adds one alert, for the caller and with that status, and if it is Safe it
\* leaves the alerts as they were.
C20_AlertIffAlertOrDanger ==
    [][ (tx'.op = "updateStatus" /\ ~tx'.reverted) =>
            /\ tourists'[tx'.sender].status = tx'.status
            /\ IF tx'.status \in {"Alert", "Danger"}
                 THEN /\ Len(emergencyAlerts') = Len(emergencyAlerts) + 1
                      /\ SubSeq(emergencyAlerts', 1, Len(emergencyAlerts)) = emergencyAlerts
                      /\ emergencyAlerts'[Len(emergencyAlerts')].tourist = tx'.sender
                      /\ emergencyAlerts'[Len(emergencyAlerts')].status = tx'.status
                      /\ alertCount' = alertCount + 1
                 ELSE /\ emergencyAlerts' = emergencyAlerts
                      /\ alertCount' = alertCount
      ]_vars

\* A tourist whose status was Alert already has requested Alert again and
\* has two alerts with that status.
C20_Witness ==
    /\ tx.op = "updateStatus"
    /\ ~tx.reverted
    /\ tx.status = "Alert"
    /\ Len(emergencyAlerts) = 2
    /\ \A i \in 1..2 : emergencyAlerts[i].tourist = tx.sender /\ emergencyAlerts[i].status = "Alert"

\* C22: after every transaction alertCount is the number of alerts that are
\* not dismissed and getActiveAlerts returns exactly these, in order; a
\* dismissed alert stays dismissed; and a dismissAlert that succeeds has
\* dismissed one alert that was there and not dismissed.
C22_AlertCountIsActiveAlerts ==
    [][ /\ alertCount' = Cardinality({ i \in 1..Len(emergencyAlerts') :
                                          ~emergencyAlerts'[i].isDismissed })
        /\ getActiveAlerts' = [ reverted |-> FALSE,
                                value |-> SelectSeq(emergencyAlerts', LAMBDA x : ~x.isDismissed) ]
        /\ \A i \in 1..Len(emergencyAlerts) :
              emergencyAlerts[i].isDismissed =>
                  (i <= Len(emergencyAlerts') /\ emergencyAlerts'[i].isDismissed)
        /\ (tx'.op = "dismissAlert" /\ ~tx'.reverted) =>
              \E i \in 1..Len(emergencyAlerts) :
                  /\ ~emergencyAlerts[i].isDismissed
                  /\ emergencyAlerts' = [emergencyAlerts EXCEPT ![i].isDismissed = TRUE]
      ]_vars

\* With the first of two alerts dismissed and the second not, a dismissAlert
\* of the owner has reverted.
C22_Witness ==
    /\ tx = [op |-> "dismissAlert", sender |-> Deployer, reverted |-> TRUE]
    /\ Len(emergencyAlerts) = 2
    /\ emergencyAlerts[1].isDismissed
    /\ ~emergencyAlerts[2].isDismissed
    /\ alertCount = 1

\* The alerts of a list that name a zone.
ZoneAlerts(list) == SelectSeq(list, LAMBDA x : x.zoneName # "")

\* C27: an updateLocation changes the caller's status only from Safe to
\* Alert and adds at most one alert; an alert naming a zone is added only by
\* an updateLocation of a tourist who was Safe; and a tourist who was not
\* Safe becomes Safe only by the tourist's own updateStatus(Safe).
C27_LocationOnlyRaisesSafe ==
    [][ /\ (tx'.op = "updateLocation" /\ ~tx'.reverted) =>
              LET a == tx'.sender
              IN  /\ tourists'[a].status # tourists[a].status
                        => (tourists[a].status = "Safe" /\ tourists'[a].status = "Alert")
                  /\ Len(emergencyAlerts') <= Len(emergencyAlerts) + 1
                  /\ tourists[a].status # "Safe" => emergencyAlerts' = emergencyAlerts
        /\ ZoneAlerts(emergencyAlerts') # ZoneAlerts(emergencyAlerts) =>
              /\ tx'.op = "updateLocation" /\ ~tx'.reverted
              /\ tourists[tx'.sender].status = "Safe"
              /\ emergencyAlerts' = Append(emergencyAlerts, emergencyAlerts'[Len(emergencyAlerts')])
              /\ emergencyAlerts'[Len(emergencyAlerts')].tourist = tx'.sender
        /\ \A a \in Addresses :
              (tourists[a].isActive /\ tourists[a].status # "Safe" /\ tourists'[a].status = "Safe")
                 => tx' = [op |-> "updateStatus", sender |-> a, reverted |-> FALSE,
                           status |-> "Safe"]
      ]_vars

\* A tourist who got an alert in the zone Cliff has reported a position
\* outside every zone and is still on Alert, with that one alert.
C27_Witness ==
    /\ tx.op = "updateLocation"
    /\ ~tx.reverted
    /\ ZonesAround(tx.latitude, tx.longitude) = {}
    /\ contractZones # << >>
    /\ tourists[tx.sender].status = "Alert"
    /\ Len(ZoneAlerts(emergencyAlerts)) = 1
    /\ emergencyAlerts[Len(emergencyAlerts)].zoneName = "Cliff"

\* C24: the admins array lists exactly the addresses for which isAdmin is
\* true, each once, and the owner is among them; an addAdmin that succeeds
\* appended an address that was not an admin, a removeAdmin that succeeds took
\* out an admin other than the owner, and one that reverts changed nothing.
C24_AdminsArrayMatchesIsAdmin ==
    [][ /\ \A a \in Wallets \cup {ZeroAddress} : isAdmin'[a] <=> (\E i \in 1..Len(admins') : admins'[i] = a)
        /\ \A i, j \in 1..Len(admins') : admins'[i] = admins'[j] => i = j
        /\ isAdmin'[owner'] /\ (\E i \in 1..Len(admins') : admins'[i] = owner')
        /\ tx'.reverted => contractVars' = contractVars
        /\ (tx'.op = "addAdmin" /\ ~tx'.reverted)
              => \E a \in Wallets :
                    /\ ~isAdmin[a]
                    /\ admins' = Append(admins, a)
                    /\ isAdmin' = [isAdmin EXCEPT ![a] = TRUE]
        /\ (tx'.op = "removeAdmin" /\ ~tx'.reverted)
              => \E a \in Wallets \ {owner} :
                    /\ isAdmin[a]
                    /\ Len(admins') = Len(admins) - 1
                    /\ isAdmin' = [isAdmin EXCEPT ![a] = FALSE]
      ]_vars

\* The owner revoked 0xB1, which stood second of four in the array: the last
\* admin, 0xD3, took its place.
C24_Witness ==
    /\ tx = [op |-> "removeAdmin", sender |-> Deployer, reverted |-> FALSE]
    /\ admins = << "0xA0", "0xD3", "0xC2" >>
    /\ ~isAdmin["0xB1"]

\* -------------------------------------------------------------------------
\* Properties of the admin's browser

\* C23: a connected wallet that verifyAdminOnChain has verified as admin is
\* eventually admitted by AdminDashboard's access guard, unless it stops
\* being admin in the browser first.
C23_VerifiedAdminAdmitted ==
    \A w \in Addresses :
       (authIsAdmin /\ adminWalletAddress = w /\ walletAddress = w /\ isAdmin[w])
          ~> (admitted \/ ~authIsAdmin)

\* C26: a zone leaves the dashboard's stored list only after a
\* removeDangerZone transaction that succeeded, and a zone enters the list
\* only after a createDangerZone transaction that succeeded.
C26_ListFollowsChain ==
    [][ /\ \A i \in 1..Len(dangerZones) :
              (\A j \in 1..Len(dangerZones') : dangerZones'[j].id # dangerZones[i].id)
                 => (tx'.op = "removeDangerZone" /\ ~tx'.reverted)
        /\ \A j \in 1..Len(dangerZones') :
              (\A i \in 1..Len(dangerZones) : dangerZones[i].id # dangerZones'[j].id)
                 => (tx'.op = "createDangerZone" /\ ~tx'.reverted)
      ]_vars

\* C28: isAdmin is true exactly when adminWalletAddress is non-null.
C28_AdminIffWallet == authIsAdmin <=> adminWalletAddress # Absent

\* C29: isLoading is true exactly while a call started through execute has
\* not settled.
C29_LoadingWhileInFlight == isLoading <=> apiCalls # << >>

\* -------------------------------------------------------------------------
\* Properties of the three containment tests

\* C14: a position whose computed distance from a zone's centre equals the
\* zone's radius is inside the zone: the hook holds the key of every such
\* zone of the last evaluation, the backend's test is true of every such
\* position and zone row, and so is the contract's test.
C14_BoundaryIsInside ==
    /\ \A s \in Subjects :
          userLocation[s] # Null =>
              \A i \in 1..Len(evaluated[s]) :
                  LET zone == evaluated[s][i]
                  IN  calculateDistance(userLocation[s].lat, userLocation[s].lng,
                                        zone.lat, zone.lng) = zone.radius
                          => zoneKey(s, zone.id) \in notifiedZones[s]
    /\ \A form \in ZoneForms, loc \in Samples :
          calculateDistance(loc.lat, loc.lng, form.lat, form.lng) = form.radius
              => InsideRow(loc, form)
    /\ \A z \in ZoneArgs, latitude \in ChainLats, longitude \in ChainLngs :
          ((latitude - 90000000) * (latitude - 90000000)) + (longitude * longitude)
                  = z.radius * z.radius * 100
              => InDangerZone([latitude |-> 90000000, longitude |-> 0, radius |-> z.radius],
                              latitude, longitude)

\* The last evaluation found the user exactly on the boundary of a zone, and
\* the three tests all have a boundary case among their inputs.
C14_Witness ==
    /\ \E s \in Subjects :
          /\ IsEvaluation(lastCall, s)
          /\ \E i \in 1..Len(evaluated[s]) :
                /\ calculateDistance(userLocation[s].lat, userLocation[s].lng,
                                     evaluated[s][i].lat, evaluated[s][i].lng)
                       = evaluated[s][i].radius
                /\ zoneKey(s, evaluated[s][i].id) \in notifiedZones[s]
    /\ \E form \in ZoneForms, loc \in Samples :
          calculateDistance(loc.lat, loc.lng, form.lat, form.lng) = form.radius
    /\ \E z \in ZoneArgs, latitude \in ChainLats :
          z.radius > 0 /\ (latitude - 90000000) * (latitude - 90000000) = z.radius * z.radius * 100

====
